---- MODULE Spec2Model ----
(***************************************************************************)
(* Model of dings-things/httpretry: the retrying http.RoundTripper         *)
(* (client.go, retriableTransport.RoundTrip) together with the registry    *)
(* of retryable status codes and the default backoff policy.               *)
(*                                                                         *)
(* One logical call of RoundTrip is modelled at the granularity of its     *)
(* blocking points: the top of a loop iteration, the select between the    *)
(* per-attempt timer and the done channel, the backoff sleep, the return.  *)
(* The caller's context, the underlying transport, the timer and the       *)
(* clock are the environment.  Durations are counted in seconds.           *)
(***************************************************************************)
EXTENDS Integers, Sequences, FiniteSets, TLC

\* ------------------------------------------------------------------ bounds

\* Largest Settings.MaxRetry explored (the smallest is -1: the field is an
\* unchecked int).
MaxRetryBound == 3

\* Longest list of additional retry status codes handed to NewClient.
MaxAdditional == 1

\* Most clients built one after the other.
MaxClients == 2

\* ------------------------------------------------------- values and helpers

\* Status codes the underlying transport may answer with.
StatusCodes == {200, 404, 503}

\* Codes a caller passes as additional retryStatusCodes to NewClient.
AdditionalCodes == {404, 500}

\* A nil error.
NoErr == "nil"

\* Errors the underlying RoundTripper may return.
TransportErrors == {"connection refused"}

\* A nil *http.Response, and a response carrying a status code.
NilResponse == [present |-> FALSE, StatusCode |-> 0]

Response(code) == [present |-> TRUE, StatusCode |-> code]

Responses == {NilResponse} \cup {Response(c) : c \in StatusCodes}

Last(s) == s[Len(s)]

SeqsUpTo(S, n) == UNION {[1..k -> S] : k \in 0..n}

\* net/http.StatusText for the codes in use.
StatusText(code) ==
    CASE code = 200 -> "OK"
      [] code = 404 -> "Not Found"
      [] code = 500 -> "Internal Server Error"
      [] code = 502 -> "Bad Gateway"
      [] code = 503 -> "Service Unavailable"
      [] code = 504 -> "Gateway Timeout"
      [] OTHER -> ""

\* ------------------------------------------------------------- the registry

\* var defaultRetryStatusMap (the reasons are given by their meaning).
defaultRetryStatusMap ==
    (500 :> "retry: server cannot process") @@
    (502 :> "retry: bad gateway") @@
    (503 :> "retry: service unavailable") @@
    (504 :> "retry: gateway timeout")

\* extendDefault, the loop over `additional` from index i on.
RECURSIVE extendFrom(_, _, _)
extendFrom(retryMap, additional, i) ==
    IF i > Len(additional) THEN retryMap
    ELSE LET code == additional[i]
         IN  IF code \in DOMAIN retryMap
             THEN extendFrom(retryMap, additional, i + 1)
             ELSE extendFrom(retryMap @@ (code :> StatusText(code)), additional, i + 1)

\* func extendDefault(additional []int) map[int]string
extendDefault(additional) == extendFrom(defaultRetryStatusMap, additional, 1)

\* ---------------------------------------------------------- backoff policy

RECURSIVE Pow2(_)
Pow2(n) == IF n <= 0 THEN 1 ELSE 2 * Pow2(n - 1)

\* func defaultBackoffPolicy(attempt int) time.Duration, in seconds.
defaultBackoffPolicy(a) == Pow2(a)

\* ------------------------------------------------------------------- state

VARIABLES
    maxRetries,        \* retriableTransport.maxRetries
    retryStatusCodes,  \* retriableTransport.retryStatusCodes
    ctxErr,            \* req.Context().Err() != nil
    pc,                \* where the call is: "top", "select", "sleep", "done"
    attempt,           \* the loop variable of RoundTrip
    allErrors,         \* the multierr accumulator, nil = <<>>
    timer,             \* this iteration's timer: "none", "running", "fired", "stopped"
    done,              \* this iteration's done channel is closed
    response,          \* this iteration's response variable
    respErr,           \* this iteration's respErr variable
    sleepLeft,         \* seconds the backoff sleep still has to run
    abandoned,         \* attempts whose goroutine outlived its iteration
    returned,          \* RoundTrip has returned
    retResponse,       \* the returned *http.Response
    retErr,            \* the returned error, nil = <<>>
    calls,             \* history: invocations of rt.RoundTripper.RoundTrip
    backoffArgs,       \* history: arguments rt.backoffPolicy was called with
    cancelledAt,       \* history: where the call was when the context ended
    raceFirst,         \* history: what happened first in this iteration's race
    bothSeen,          \* history: an attempt came back with a response and an error
    pkgRetryStatusMap, \* the package variable defaultRetryStatusMap
    DefaultTransport,  \* the settings held by the shared http.DefaultTransport
    clients,           \* history: the transports built by newRetriableTransport
    cur,               \* which of two calls through the client is running
    parked             \* the stack frame of the call that is not running

\* The state of one call of RoundTrip and of the client it goes through.
callVars == <<maxRetries, retryStatusCodes, ctxErr, pc, attempt, allErrors,
              timer, done, response, respErr, sleepLeft, abandoned, returned,
              retResponse, retErr, calls, backoffArgs, cancelledAt, raceFirst,
              bothSeen>>

\* The state that building clients works on.
buildVars == <<pkgRetryStatusMap, DefaultTransport, clients>>

\* The state of a second call that goes through the same client.
concVars == <<cur, parked>>

\* The state that one call of RoundTrip leaves alone.
outside == <<buildVars, concVars>>

vars == <<callVars, outside>>

config == <<maxRetries, retryStatusCodes>>

iteration == <<timer, done, response, respErr>>

result == <<returned, retResponse, retErr>>

\* ------------------------------------------------------------------ errors

\* errors.New("cancelled from parent context")
CancelledErr == [tag |-> 0, msg |-> "cancelled from parent context"]

\* errors.New("max retries reached")
MaxRetriesErr == [tag |-> 0, msg |-> "max retries reached"]

\* fmt.Errorf("request timeout attempt(%d)", attempt)
TimeoutErr(a) == [tag |-> a, msg |-> "request timeout"]

\* errors.Wrapf(retryErr, "attempt(%d)", attempt)
Wrapf(retryErr, a) == [tag |-> a, msg |-> retryErr]

\* The bug of keeping only the latest error.
multierrAppend_keepLast(errs, e) == <<e>>

\* multierr.Append(allErrors, err) for a non-nil err.
multierrAppend(errs, e) == Append(errs, e)

\* ------------------------------------------------------------ retry decision

\* statusCode as computed in the done branch: -1 unless a response came.
statusCodeOf(resp) == IF resp.present THEN resp.StatusCode ELSE -1

\* The bug of retrying every client or server error status.
shouldRetry_anyErrorStatus(statusCode, err) ==
    IF err # NoErr THEN [retry |-> TRUE, err |-> err]
    ELSE IF statusCode \in DOMAIN retryStatusCodes
         THEN [retry |-> TRUE, err |-> retryStatusCodes[statusCode]]
         ELSE IF statusCode >= 400
              THEN [retry |-> TRUE, err |-> StatusText(statusCode)]
              ELSE [retry |-> FALSE, err |-> NoErr]

\* The bug of trusting a response that came with an error.
shouldRetry_errOnlyWithoutResponse(statusCode, err) ==
    IF err # NoErr /\ statusCode = -1 THEN [retry |-> TRUE, err |-> err]
    ELSE IF statusCode \in DOMAIN retryStatusCodes
         THEN [retry |-> TRUE, err |-> retryStatusCodes[statusCode]]
         ELSE [retry |-> FALSE, err |-> NoErr]

\* func (rt *retriableTransport) shouldRetry(statusCode int, err error) (bool, error)
shouldRetry(statusCode, err) ==
    IF err # NoErr THEN [retry |-> TRUE, err |-> err]
    ELSE IF statusCode \in DOMAIN retryStatusCodes
         THEN [retry |-> TRUE, err |-> retryStatusCodes[statusCode]]
         ELSE [retry |-> FALSE, err |-> NoErr]

\* ---------------------------------------------------------- loop control

\* The bug of looking at the context before the first attempt only.
ContextErr_firstOnly == ctxErr /\ attempt = 1

\* req.Context().Err() != nil
ContextErr == ctxErr

\* The bug of testing the budget before the context.
IterationTop_budgetFirst(a) ==
    IF ~(a <= maxRetries + 1) THEN "end"
    ELSE IF a > maxRetries THEN "exhausted"
    ELSE IF ContextErr THEN "cancelled"
    ELSE "attempt"

\* What the top of iteration a does: the loop condition, then the context
\* check, then the budget check.
IterationTop(a) ==
    IF ~(a <= maxRetries + 1) THEN "end"
    ELSE IF ContextErr THEN "cancelled"
    ELSE IF a > maxRetries THEN "exhausted"
    ELSE "attempt"

\* The bug of a loop that does not advance its counter.
NextAttempt_stuck(a) == a

\* attempt++
NextAttempt(a) == a + 1

\* ------------------------------------------------------------------- Init

\* http.DefaultTransport as net/http sets it up (durations in seconds).
InitialDefaultTransport ==
    [MaxIdleConns |-> 100, IdleConnTimeout |-> 90, TLSHandshakeTimeout |-> 10,
     ExpectContinueTimeout |-> 1, ResponseHeaderTimeout |-> 0,
     MinVersion |-> "default", InsecureSkipVerify |-> FALSE]

\* The package state before any client is built.
NothingBuilt ==
    /\ pkgRetryStatusMap = defaultRetryStatusMap
    /\ DefaultTransport = InitialDefaultTransport
    /\ clients = <<>>

\* One call goes through the client, and no other.
SingleCall ==
    /\ cur = 1
    /\ parked = "none"

Init ==
    /\ NothingBuilt
    /\ SingleCall
    /\ maxRetries \in (-1)..MaxRetryBound
    /\ \E additional \in SeqsUpTo(AdditionalCodes, MaxAdditional) :
           retryStatusCodes = extendDefault(additional)
    /\ ctxErr \in BOOLEAN
    /\ cancelledAt = IF ctxErr THEN "entry" ELSE "never"
    /\ pc = "top"
    /\ attempt = 1
    /\ allErrors = <<>>
    /\ timer = "none"
    /\ done = FALSE
    /\ response = NilResponse
    /\ respErr = NoErr
    /\ sleepLeft = 0
    /\ abandoned = {}
    /\ returned = FALSE
    /\ retResponse = NilResponse
    /\ retErr = <<>>
    /\ calls = 0
    /\ backoffArgs = <<>>
    /\ raceFirst = "none"
    /\ bothSeen = FALSE

\* ---------------------------------------------------------------- actions

\* return nil, allErrors (with the accumulator as it will be returned)
ReturnError(errs) ==
    /\ pc' = "done"
    /\ allErrors' = errs
    /\ returned' = TRUE
    /\ retResponse' = NilResponse
    /\ retErr' = errs

\* The bug of handing the accumulated errors back with the response.
ReturnResponse_withErrors(resp) ==
    /\ pc' = "done"
    /\ returned' = TRUE
    /\ retResponse' = resp
    /\ retErr' = allErrors

\* return response, nil
ReturnResponse(resp) ==
    /\ pc' = "done"
    /\ returned' = TRUE
    /\ retResponse' = resp
    /\ retErr' = <<>>

\* The caller's context is cancelled or its deadline passes.
Cancel ==
    /\ ~ctxErr
    /\ ctxErr' = TRUE
    /\ cancelledAt' = pc
    /\ UNCHANGED outside
    /\ UNCHANGED <<raceFirst, bothSeen>>
    /\ UNCHANGED <<config, pc, attempt, allErrors, iteration, sleepLeft,
                   abandoned, result, calls, backoffArgs>>

\* The loop condition fails: the loop is left without a break.
LoopEnd ==
    /\ pc = "top"
    /\ IterationTop(attempt) = "end"
    /\ ReturnError(allErrors)
    /\ UNCHANGED outside
    /\ UNCHANGED <<raceFirst, bothSeen>>
    /\ UNCHANGED <<config, ctxErr, attempt, iteration, sleepLeft, abandoned,
                   calls, backoffArgs, cancelledAt>>

\* The context check at the top of the iteration breaks the loop.
LoopCancelled ==
    /\ pc = "top"
    /\ IterationTop(attempt) = "cancelled"
    /\ ReturnError(multierrAppend(allErrors, CancelledErr))
    /\ UNCHANGED outside
    /\ UNCHANGED <<raceFirst, bothSeen>>
    /\ UNCHANGED <<config, ctxErr, attempt, iteration, sleepLeft, abandoned,
                   calls, backoffArgs, cancelledAt>>

\* The budget check at the top of the iteration breaks the loop.
LoopExhausted ==
    /\ pc = "top"
    /\ IterationTop(attempt) = "exhausted"
    /\ ReturnError(multierrAppend(allErrors, MaxRetriesErr))
    /\ UNCHANGED outside
    /\ UNCHANGED <<raceFirst, bothSeen>>
    /\ UNCHANGED <<config, ctxErr, attempt, iteration, sleepLeft, abandoned,
                   calls, backoffArgs, cancelledAt>>

\* The iteration creates its timer, channel and variables and starts the
\* goroutine that calls the underlying transport.
StartAttempt ==
    /\ pc = "top"
    /\ IterationTop(attempt) = "attempt"
    /\ timer' = "running"
    /\ done' = FALSE
    /\ response' = NilResponse
    /\ respErr' = NoErr
    /\ calls' = calls + 1
    /\ pc' = "select"
    /\ raceFirst' = "none"
    /\ UNCHANGED bothSeen
    /\ UNCHANGED outside
    /\ UNCHANGED <<config, ctxErr, attempt, allErrors, sleepLeft, abandoned,
                   result, backoffArgs, cancelledAt>>

\* The goroutine of the running iteration gets its answer and closes done.
TransportReturn ==
    /\ pc = "select"
    /\ ~done
    /\ \E r \in Responses, e \in {NoErr} \cup TransportErrors :
           /\ response' = r
           /\ respErr' = e
    /\ done' = TRUE
    /\ raceFirst' = IF raceFirst = "none" THEN "done" ELSE raceFirst
    /\ UNCHANGED bothSeen
    /\ UNCHANGED outside
    /\ UNCHANGED <<config, ctxErr, pc, attempt, allErrors, timer, sleepLeft,
                   abandoned, result, calls, backoffArgs, cancelledAt>>

\* rt.requestTimeout elapses: the timer sends on its channel.
TimerFire ==
    /\ pc = "select"
    /\ timer = "running"
    /\ timer' = "fired"
    /\ raceFirst' = IF raceFirst = "none" THEN "timer" ELSE raceFirst
    /\ UNCHANGED bothSeen
    /\ UNCHANGED outside
    /\ UNCHANGED <<config, ctxErr, pc, attempt, allErrors, done, response,
                   respErr, sleepLeft, abandoned, result, calls, backoffArgs,
                   cancelledAt>>

\* The bug of a select without the timer case: only done is waited for.
SelectTimeout_noTimerCase ==
    /\ pc = "select"
    /\ timer = "fired"
    /\ FALSE
    /\ UNCHANGED vars

\* case <-timer.C: the timeout is recorded and the loop goes on at once.
SelectTimeout ==
    /\ pc = "select"
    /\ timer = "fired"
    /\ allErrors' = multierrAppend(allErrors, TimeoutErr(attempt))
    /\ abandoned' = IF done THEN abandoned ELSE abandoned \cup {attempt}
    /\ attempt' = NextAttempt(attempt)
    /\ pc' = "top"
    /\ timer' = "none"
    /\ done' = FALSE
    /\ response' = NilResponse
    /\ respErr' = NoErr
    /\ raceFirst' = "none"
    /\ UNCHANGED bothSeen
    /\ UNCHANGED outside
    /\ UNCHANGED <<config, ctxErr, sleepLeft, result, calls, backoffArgs,
                   cancelledAt>>

\* case <-done with a retry verdict: record the reason, ask the backoff
\* policy and start sleeping.
SelectDoneRetry ==
    /\ pc = "select"
    /\ done
    /\ LET v == shouldRetry(statusCodeOf(response), respErr)
       IN  /\ v.retry
           /\ allErrors' = multierrAppend(allErrors, Wrapf(v.err, attempt))
    /\ backoffArgs' = Append(backoffArgs, attempt)
    /\ sleepLeft' = defaultBackoffPolicy(attempt)
    /\ pc' = "sleep"
    /\ timer' = "stopped"
    /\ raceFirst' = "none"
    /\ bothSeen' = (bothSeen \/ (response.present /\ respErr # NoErr))
    /\ UNCHANGED outside
    /\ UNCHANGED <<config, ctxErr, attempt, done, response, respErr, abandoned,
                   result, calls, cancelledAt>>

\* case <-done with a no-retry verdict: return response, nil
SelectDoneReturn ==
    /\ pc = "select"
    /\ done
    /\ ~shouldRetry(statusCodeOf(response), respErr).retry
    /\ timer' = "stopped"
    /\ ReturnResponse(response)
    /\ raceFirst' = "none"
    /\ UNCHANGED bothSeen
    /\ UNCHANGED outside
    /\ UNCHANGED <<config, ctxErr, attempt, allErrors, done, response, respErr,
                   sleepLeft, abandoned, calls, backoffArgs, cancelledAt>>

\* One second of time.Sleep passes.
SleepTick ==
    /\ pc = "sleep"
    /\ sleepLeft > 0
    /\ sleepLeft' = sleepLeft - 1
    /\ UNCHANGED outside
    /\ UNCHANGED <<raceFirst, bothSeen>>
    /\ UNCHANGED <<config, ctxErr, pc, attempt, allErrors, iteration, abandoned,
                   result, calls, backoffArgs, cancelledAt>>

\* time.Sleep returns; continue
SleepEnd ==
    /\ pc = "sleep"
    /\ sleepLeft = 0
    /\ attempt' = NextAttempt(attempt)
    /\ pc' = "top"
    /\ timer' = "none"
    /\ done' = FALSE
    /\ response' = NilResponse
    /\ respErr' = NoErr
    /\ UNCHANGED outside
    /\ UNCHANGED <<raceFirst, bothSeen>>
    /\ UNCHANGED <<config, ctxErr, allErrors, sleepLeft, abandoned, result,
                   calls, backoffArgs, cancelledAt>>

\* The goroutine of a timed-out attempt gets its answer at last: it writes the
\* variables of its own iteration and closes that iteration's channel.
AbandonedReturn ==
    /\ \E a \in abandoned : abandoned' = abandoned \ {a}
    /\ UNCHANGED outside
    /\ UNCHANGED <<raceFirst, bothSeen>>
    /\ UNCHANGED <<config, ctxErr, pc, attempt, allErrors, iteration, sleepLeft,
                   result, calls, backoffArgs, cancelledAt>>

Next ==
    \/ Cancel
    \/ LoopEnd
    \/ LoopCancelled
    \/ LoopExhausted
    \/ StartAttempt
    \/ TransportReturn
    \/ TimerFire
    \/ SelectTimeout
    \/ SelectDoneRetry
    \/ SelectDoneReturn
    \/ SleepTick
    \/ SleepEnd
    \/ AbandonedReturn

Spec == Init /\ [][Next]_vars

\* The scheduling the call relies on: the calling goroutine is scheduled
\* whenever it can run, a started timer fires, and a sleep ends after its
\* duration.  Nothing is assumed of the underlying transport or the caller.
FairSpec ==
    /\ Spec
    /\ WF_vars(LoopEnd \/ LoopCancelled \/ LoopExhausted \/ StartAttempt)
    /\ WF_vars(TimerFire)
    /\ WF_vars(SelectTimeout \/ SelectDoneRetry \/ SelectDoneReturn)
    /\ WF_vars(SleepTick)
    /\ WF_vars(SleepEnd)

\* ------------------------------------------------------- building clients

\* What NewHTTPSettings() returns when no option is given (durations in
\* seconds).
NewHTTPSettings ==
    [MaxRetry |-> 3, DebugMode |-> FALSE, Insecure |-> TRUE,
     MaxIdleConns |-> 15, IdleConnTimeout |-> 90, TLSHandshakeTimeout |-> 10,
     ExpectContinueTimeout |-> 1, ResponseHeaderTimeout |-> 10,
     RequestTimeout |-> 10, BackoffPolicy |-> "defaultBackoffPolicy"]

\* Settings values a caller builds with the With... options: WithMaxRetry,
\* WithInsecure, WithMaxIdleConns and WithBackoffPolicy (nil or a function of
\* the caller).
SettingsValues ==
    {[NewHTTPSettings EXCEPT !.MaxRetry = 1, !.Insecure = i,
                             !.MaxIdleConns = k, !.BackoffPolicy = b] :
        i \in BOOLEAN, k \in {15, 30}, b \in {"nil", "custom"}}

\* The *Settings arguments of NewClient: nil, or a pointer to a value.
SettingsArgs ==
    {[isNil |-> TRUE, val |-> NewHTTPSettings]} \cup
    {[isNil |-> FALSE, val |-> v] : v \in SettingsValues}

\* The bug of extending the package map in place instead of a copy of it.
extendDefaultCall_inPlace(defaults, additional) ==
    [retryMap |-> extendFrom(defaults, additional, 1),
     defaults |-> extendFrom(defaults, additional, 1)]

\* One call of extendDefault on the package map as it stands: the map it
\* returns and the package map it leaves.
extendDefaultCall(defaults, additional) ==
    [retryMap |-> extendFrom(defaults, additional, 1),
     defaults |-> defaults]

\* func newRetriableTransport(settings *Settings, retryStatusCodes ...int),
\* called by NewClient.
NewClient ==
    /\ Len(clients) < MaxClients
    /\ \E arg \in SettingsArgs, codes \in SeqsUpTo(AdditionalCodes, MaxAdditional) :
         LET settings == IF arg.isNil THEN NewHTTPSettings ELSE arg.val
             ext == extendDefaultCall(pkgRetryStatusMap, codes)
             policy == IF settings.BackoffPolicy = "nil"
                       THEN "defaultBackoffPolicy"
                       ELSE settings.BackoffPolicy
             left == [settings EXCEPT !.BackoffPolicy = policy]
         IN  /\ DefaultTransport' =
                    [MaxIdleConns |-> settings.MaxIdleConns,
                     IdleConnTimeout |-> settings.IdleConnTimeout,
                     TLSHandshakeTimeout |-> settings.TLSHandshakeTimeout,
                     ExpectContinueTimeout |-> settings.ExpectContinueTimeout,
                     ResponseHeaderTimeout |-> settings.ResponseHeaderTimeout,
                     MinVersion |-> "TLS12",
                     InsecureSkipVerify |-> settings.Insecure]
             /\ pkgRetryStatusMap' = ext.defaults
             /\ clients' = Append(clients,
                    [RoundTripper |-> "http.DefaultTransport",
                     requestTimeout |-> settings.RequestTimeout,
                     maxRetries |-> settings.MaxRetry,
                     retryStatusCodes |-> ext.retryMap,
                     backoffPolicy |-> policy,
                     debugMode |-> settings.DebugMode,
                     additional |-> codes,
                     given |-> arg,
                     left |-> [isNil |-> arg.isNil, val |-> left]])
    /\ UNCHANGED callVars
    /\ UNCHANGED concVars

\* No call is running while clients are built.
NoCall ==
    /\ maxRetries = 0
    /\ retryStatusCodes = defaultRetryStatusMap
    /\ ctxErr = FALSE
    /\ cancelledAt = "never"
    /\ pc = "top"
    /\ attempt = 1
    /\ allErrors = <<>>
    /\ timer = "none"
    /\ done = FALSE
    /\ response = NilResponse
    /\ respErr = NoErr
    /\ sleepLeft = 0
    /\ abandoned = {}
    /\ returned = FALSE
    /\ retResponse = NilResponse
    /\ retErr = <<>>
    /\ calls = 0
    /\ backoffArgs = <<>>
    /\ raceFirst = "none"
    /\ bothSeen = FALSE

BuildInit == NothingBuilt /\ SingleCall /\ NoCall

BuildNext == NewClient

\* Clients built one after the other by NewClient.
BuildSpec == BuildInit /\ [][BuildNext]_vars

\* ------------------------------------------- two calls through one client

\* The budget of the client that two calls share.
ConcRetries == 1

\* What one invocation of RoundTrip owns: its request (and so its context),
\* the variables of its stack frame, the goroutines it started and what it
\* returned, together with the history kept of it.
Frame ==
    [ctxErr |-> ctxErr, pc |-> pc, attempt |-> attempt,
     allErrors |-> allErrors, timer |-> timer, done |-> done,
     response |-> response, respErr |-> respErr, sleepLeft |-> sleepLeft,
     abandoned |-> abandoned, returned |-> returned,
     retResponse |-> retResponse, retErr |-> retErr, calls |-> calls,
     backoffArgs |-> backoffArgs, cancelledAt |-> cancelledAt,
     raceFirst |-> raceFirst, bothSeen |-> bothSeen]

\* The frame of an invocation that has just been entered.
NewFrame ==
    [ctxErr |-> FALSE, pc |-> "top", attempt |-> 1,
     allErrors |-> <<>>, timer |-> "none", done |-> FALSE,
     response |-> NilResponse, respErr |-> NoErr, sleepLeft |-> 0,
     abandoned |-> {}, returned |-> FALSE,
     retResponse |-> NilResponse, retErr |-> <<>>, calls |-> 0,
     backoffArgs |-> <<>>, cancelledAt |-> "never",
     raceFirst |-> "none", bothSeen |-> FALSE]

\* The frame of call c, running or not.
FrameOf(c) == IF cur = c THEN Frame ELSE parked

\* The bug of keeping the accumulator in the transport, where the calls
\* share it, instead of in the invocation.
Switch_sharedAccumulator ==
    /\ cur' = 3 - cur
    /\ parked' = Frame
    /\ ctxErr' = parked.ctxErr
    /\ pc' = parked.pc
    /\ attempt' = parked.attempt
    /\ allErrors' = allErrors
    /\ timer' = parked.timer
    /\ done' = parked.done
    /\ response' = parked.response
    /\ respErr' = parked.respErr
    /\ sleepLeft' = parked.sleepLeft
    /\ abandoned' = parked.abandoned
    /\ returned' = parked.returned
    /\ retResponse' = parked.retResponse
    /\ retErr' = parked.retErr
    /\ calls' = parked.calls
    /\ backoffArgs' = parked.backoffArgs
    /\ cancelledAt' = parked.cancelledAt
    /\ raceFirst' = parked.raceFirst
    /\ bothSeen' = parked.bothSeen
    /\ UNCHANGED <<config, buildVars>>

\* The scheduler turns from one call to the other.  Each invocation of
\* RoundTrip works on its own request and its own local variables; of the
\* transport it only reads the fields, which stay where they are.
Switch ==
    /\ cur' = 3 - cur
    /\ parked' = Frame
    /\ ctxErr' = parked.ctxErr
    /\ pc' = parked.pc
    /\ attempt' = parked.attempt
    /\ allErrors' = parked.allErrors
    /\ timer' = parked.timer
    /\ done' = parked.done
    /\ response' = parked.response
    /\ respErr' = parked.respErr
    /\ sleepLeft' = parked.sleepLeft
    /\ abandoned' = parked.abandoned
    /\ returned' = parked.returned
    /\ retResponse' = parked.retResponse
    /\ retErr' = parked.retErr
    /\ calls' = parked.calls
    /\ backoffArgs' = parked.backoffArgs
    /\ cancelledAt' = parked.cancelledAt
    /\ raceFirst' = parked.raceFirst
    /\ bothSeen' = parked.bothSeen
    /\ UNCHANGED <<config, buildVars>>

\* Two calls have entered RoundTrip of one client and neither has taken a
\* step.
ConcInit ==
    /\ NothingBuilt
    /\ maxRetries \in (-1)..ConcRetries
    /\ retryStatusCodes = extendDefault(<<>>)
    /\ cur = 1
    /\ parked = NewFrame
    /\ ctxErr = FALSE
    /\ cancelledAt = "never"
    /\ pc = "top"
    /\ attempt = 1
    /\ allErrors = <<>>
    /\ timer = "none"
    /\ done = FALSE
    /\ response = NilResponse
    /\ respErr = NoErr
    /\ sleepLeft = 0
    /\ abandoned = {}
    /\ returned = FALSE
    /\ retResponse = NilResponse
    /\ retErr = <<>>
    /\ calls = 0
    /\ backoffArgs = <<>>
    /\ raceFirst = "none"
    /\ bothSeen = FALSE

ConcNext ==
    \/ Next
    \/ Switch

\* Two calls through one client, interleaved in any way.
ConcSpec == ConcInit /\ [][ConcNext]_vars

\* ------------------------------------------------- vocabulary of the claims

\* The reasons the registry of this client gives.
StatusReasons == {retryStatusCodes[c] : c \in DOMAIN retryStatusCodes}

\* The positions of the per-attempt reasons (tagged with an attempt number)
\* in a list of errors.
AttemptReasonIdx(errs) == {i \in 1..Len(errs) : errs[i].tag # 0}

\* The caller did not cancel while the call was running.
NotCancelledDuringCall == cancelledAt \in {"never", "done"}

\* Every attempt made so far ended with a reason in the accumulator and
\* every such reason satisfies the test.
EveryAttemptFailedWith(msgs) ==
    /\ Cardinality(AttemptReasonIdx(allErrors)) = calls
    /\ \A i \in AttemptReasonIdx(allErrors) : allErrors[i].msg \in msgs

\* ------------------------------------------------------------------ claims

\* C1: with maxRetries = N >= 0, whatever the transport, the timer and the
\* caller do, one call starts at most N + 1 attempts against the underlying
\* transport.
C1_AtMostNPlusOneAttempts ==
    maxRetries >= 0 => calls <= maxRetries + 1

\* C1 witness: a call with a budget of at least two that used all the
\* attempts the loop grants and ended in exhaustion.
C1_Witness ==
    /\ maxRetries >= 2
    /\ returned
    /\ calls = maxRetries
    /\ retErr # <<>>
    /\ Last(retErr) = MaxRetriesErr

\* C2 (as claimed): when every attempt is answered with a registered
\* retryable status and the caller never cancels, a returned call with
\* maxRetries = N that made an attempt has made exactly N + 1 attempts and
\* returns no response and an error ending in 'max retries reached'.
C2_ExactlyNPlusOneThenExhausted ==
    ( /\ maxRetries >= 0
      /\ returned
      /\ NotCancelledDuringCall
      /\ calls >= 1
      /\ EveryAttemptFailedWith(StatusReasons) )
    => ( /\ calls = maxRetries + 1
         /\ retResponse = NilResponse
         /\ retErr # <<>>
         /\ Last(retErr) = MaxRetriesErr )

\* C3 (as claimed): when the first two attempts are answered with a
\* registered retryable status and a third attempt, if made, with a status
\* that is not registered, and the caller never cancels, a returned call
\* with maxRetries >= 2 returns the third attempt's response and no error.
C3_TwoRetriesThenSuccess ==
    ( /\ maxRetries >= 2
      /\ returned
      /\ NotCancelledDuringCall
      /\ calls >= 2
      /\ {1, 2} \subseteq AttemptReasonIdx(allErrors)
      /\ allErrors[1].msg \in StatusReasons
      /\ allErrors[2].msg \in StatusReasons
      /\ (calls >= 3 => /\ calls = 3
                        /\ AttemptReasonIdx(allErrors) = {1, 2}
                        /\ retResponse.present) )
    => ( /\ calls = 3
         /\ retResponse.present
         /\ retResponse.StatusCode \notin DOMAIN retryStatusCodes
         /\ retErr = <<>> )

\* C4 (as claimed): for every maxRetries >= 0, when the caller does not
\* cancel and the first attempt is answered before the timer with a status
\* that is not registered, the returned call has made exactly one attempt,
\* has never asked the backoff policy and returns that response, no error.
C4_FirstAttemptSucceeds ==
    ( /\ maxRetries >= 0
      /\ returned
      /\ NotCancelledDuringCall
      /\ AttemptReasonIdx(allErrors) = {}
      /\ (calls >= 1 => retResponse.present) )
    => ( /\ calls = 1
         /\ backoffArgs = <<>>
         /\ retResponse.present
         /\ retResponse.StatusCode \notin DOMAIN retryStatusCodes
         /\ retErr = <<>> )

\* C5: when the context is already cancelled as RoundTrip is entered, then
\* for every maxRetries >= 0 no attempt is started, the backoff policy is
\* not asked, and the call returns no response and the error holding the
\* single reason 'cancelled from parent context'.
C5_CancelledAtEntry ==
    (maxRetries >= 0 /\ cancelledAt = "entry")
    => ( /\ calls = 0
         /\ backoffArgs = <<>>
         /\ pc \in {"top", "done"}
         /\ allErrors \in {<<>>, <<CancelledErr>>}
         /\ (returned => /\ retResponse = NilResponse
                         /\ retErr = <<CancelledErr>>) )

\* C5 witness: a call with no retry budget at all, entered with a cancelled
\* context, has returned.
C5_Witness ==
    /\ maxRetries = 0
    /\ cancelledAt = "entry"
    /\ returned

\* C6: once the context is cancelled no attempt is started any more; the
\* backoff sleep ends only when its whole duration has passed and a
\* cancellation arriving during it changes neither the sleep nor the
\* position of the call; with the context cancelled, the top of the next
\* iteration ends the call with no response and 'cancelled from parent
\* context' appended to the reasons gathered so far.
C6_CancellationTerminal ==
    [][ /\ (ctxErr => calls' = calls)
        /\ (pc = "sleep" /\ pc' # "sleep" => sleepLeft = 0 /\ pc' = "top")
        /\ (pc = "sleep" /\ ~ctxErr /\ ctxErr'
              => pc' = "sleep" /\ sleepLeft' = sleepLeft /\ ~returned')
        /\ (maxRetries >= 0 /\ ctxErr /\ pc = "top" /\ pc' # "top"
              => /\ pc' = "done"
                 /\ returned'
                 /\ retResponse' = NilResponse
                 /\ retErr' = Append(allErrors, CancelledErr)) ]_vars

\* C6 witness: the context was cancelled during a backoff sleep and the call
\* ended with the earlier reason followed by the cancellation.
C6_Witness ==
    /\ cancelledAt = "sleep"
    /\ returned
    /\ Len(retErr) >= 2
    /\ Last(retErr) = CancelledErr
    /\ backoffArgs # <<>>

\* C7: at the top of iteration a (and while its attempt runs) the
\* accumulator holds exactly a - 1 reasons, the i-th tagged with attempt i;
\* an error returned after k attempts holds exactly k attempt reasons, in
\* the order 1..k, each a timeout, a transport error or a registered status
\* reason, followed by one terminal reason.
C7_FullHistoryInOrder ==
    /\ (pc \in {"top", "select"} =>
            /\ Len(allErrors) = attempt - 1
            /\ \A i \in 1..Len(allErrors) : allErrors[i].tag = i)
    /\ (returned /\ retErr # <<>> =>
            /\ Len(retErr) = calls + 1
            /\ \A i \in 1..calls :
                   /\ retErr[i].tag = i
                   /\ retErr[i].msg \in
                          {"request timeout"} \cup TransportErrors \cup StatusReasons
            /\ Last(retErr) \in {CancelledErr, MaxRetriesErr})

\* C7 witness: a returned error that holds a timeout reason and, after it, a
\* transport error, before its terminal reason.
C7_Witness ==
    /\ returned
    /\ Len(retErr) >= 3
    /\ retErr[1] = TimeoutErr(1)
    /\ retErr[2] = Wrapf("connection refused", 2)

\* C8 (as claimed): the backoff policy has been asked exactly once for
\* every attempt that ended with a retryable outcome (timeouts included),
\* so the arguments it received are 1, 2, ..., r for the r reasons gathered.
C8_BackoffAfterEveryRetryableAttempt ==
    backoffArgs = [i \in 1..Cardinality(AttemptReasonIdx(allErrors)) |-> i]

\* C9 (as claimed): when every attempt times out and the caller never
\* cancels, a returned call with maxRetries = N that made an attempt has
\* made N + 1 attempts and returns no response and the error holding the
\* timeout reasons of attempts 1..N+1 followed by 'max retries reached'.
C9_TimeoutsUntilNPlusOne ==
    ( /\ maxRetries >= 0
      /\ returned
      /\ NotCancelledDuringCall
      /\ calls >= 1
      /\ EveryAttemptFailedWith({"request timeout"}) )
    => ( /\ calls = maxRetries + 1
         /\ retResponse = NilResponse
         /\ retErr = [i \in 1..(maxRetries + 2) |->
                         IF i <= maxRetries + 1 THEN TimeoutErr(i)
                         ELSE MaxRetriesErr] )

C11_NeverBoth ==
    returned => ~(retResponse.present /\ retErr # <<>>)

\* C11 witness: an attempt came back with both a response and an error, was
\* retried, and the call later returned a response with a nil error.
C11_Witness ==
    /\ returned
    /\ bothSeen
    /\ retResponse.present
    /\ retErr = <<>>
    /\ allErrors # <<>>

\* C12: the decision taken on the done branch depends on the status code,
\* the failure and the registry only: with a failure the attempt is retried
\* with that failure as reason, whatever the status code; without one it is
\* retried exactly when the status code is a key of the registry, with the
\* registered text as reason, and returned with no reason otherwise.  The
\* registry holds the defaults 500, 502, 503, 504 and the codes passed at
\* build time with their standard text, so a call answered with a code
\* registered that way on every attempt ends with no response and an
\* exhaustion error holding that code's standard description.
C12_RetryDecision ==
    /\ [][ (pc = "select" /\ pc' \in {"sleep", "done"}) =>
             IF respErr # NoErr
             THEN /\ pc' = "sleep"
                  /\ allErrors' = Append(allErrors, [tag |-> attempt, msg |-> respErr])
             ELSE IF statusCodeOf(response) \in DOMAIN retryStatusCodes
             THEN /\ pc' = "sleep"
                  /\ allErrors' = Append(allErrors,
                         [tag |-> attempt,
                          msg |-> retryStatusCodes[statusCodeOf(response)]])
             ELSE /\ pc' = "done"
                  /\ allErrors' = allErrors
                  /\ retResponse' = response
                  /\ retErr' = <<>> ]_vars
    /\ [] ( /\ {500, 502, 503, 504} \subseteq DOMAIN retryStatusCodes
            /\ DOMAIN retryStatusCodes \subseteq {500, 502, 503, 504} \cup AdditionalCodes
            /\ \A c \in DOMAIN retryStatusCodes \ {500, 502, 503, 504} :
                   retryStatusCodes[c] = StatusText(c)
            /\ \A c \in AdditionalCodes \cap DOMAIN retryStatusCodes :
                   ( /\ returned
                     /\ NotCancelledDuringCall
                     /\ calls >= 1
                     /\ EveryAttemptFailedWith({StatusText(c)}) )
                   => ( /\ retResponse = NilResponse
                        /\ Len(retErr) = calls + 1
                        /\ \A i \in 1..calls : retErr[i] = [tag |-> i, msg |-> StatusText(c)]
                        /\ Last(retErr) = MaxRetriesErr ) )

\* C12 witness: a client built with 404 as additional code, answered with
\* 404 on every attempt, has used its budget and returned the exhaustion
\* error.
C12_Witness ==
    /\ 404 \in DOMAIN retryStatusCodes
    /\ maxRetries >= 2
    /\ returned
    /\ NotCancelledDuringCall
    /\ calls = maxRetries
    /\ EveryAttemptFailedWith({"Not Found"})

\* C13: for every maxRetries >= 0 and whatever the underlying transport
\* does, calls that never complete included, the call returns, provided
\* every timer fires and every backoff sleep ends.
C13_Terminates ==
    (maxRetries >= 0) => <>returned

\* C13 witness: a call has returned although the transport calls of two of
\* its attempts never completed.
C13_Witness ==
    /\ maxRetries >= 2
    /\ returned
    /\ Cardinality(abandoned) >= 2
    /\ Last(retErr) = MaxRetriesErr

\* C14: the registry of every client built has the key set {500, 502, 503,
\* 504} united with the codes passed for it, keeps the default reasons of
\* the four default codes (also when one of them is passed again), maps every
\* other code to its standard text, is the default map when no code was
\* passed, and holds no code passed for another client only; the package
\* map still has exactly its four original entries after every build.
C14_RegistryExtension ==
    /\ pkgRetryStatusMap = defaultRetryStatusMap
    /\ DOMAIN pkgRetryStatusMap = {500, 502, 503, 504}
    /\ \A i \in 1..Len(clients) :
         LET reg == clients[i].retryStatusCodes
             passed == {clients[i].additional[j] : j \in 1..Len(clients[i].additional)}
         IN  /\ DOMAIN reg = {500, 502, 503, 504} \cup passed
             /\ \A c \in {500, 502, 503, 504} : reg[c] = defaultRetryStatusMap[c]
             /\ \A c \in passed \ {500, 502, 503, 504} : reg[c] = StatusText(c)
             /\ (passed = {} => reg = defaultRetryStatusMap)

\* C14 witness: a client built with 404 was followed by a client built with
\* the default code 500 passed again, whose registry does not hold 404.
C14_Witness ==
    /\ Len(clients) = 2
    /\ clients[1].additional = <<404>>
    /\ clients[2].additional = <<500>>
    /\ 404 \in DOMAIN clients[1].retryStatusCodes
    /\ 404 \notin DOMAIN clients[2].retryStatusCodes

\* C15 (as claimed): a client built from nil settings has maxRetries = 3, a
\* per-attempt timeout of 10 s, the exponential backoff policy, and leaves
\* certificate verification enabled on its transport.
C15_NilSettingsDefaults ==
    \A i \in 1..Len(clients) :
        clients[i].given.isNil =>
            /\ clients[i].maxRetries = 3
            /\ clients[i].requestTimeout = 10
            /\ clients[i].backoffPolicy = "defaultBackoffPolicy"
            /\ (i = Len(clients) => DefaultTransport.InsecureSkipVerify = FALSE)

\* The attempts whose call of the underlying transport has not come back.
InFlight ==
    abandoned \cup (IF pc = "select" /\ ~done THEN {attempt} ELSE {})

\* C16 (as claimed): the first of the two events of an attempt decides it.
\* When the timer fired first, the attempt ends as a timeout tagged with its
\* number and nothing is returned; when the underlying call completed
\* first, the attempt ends on the done branch, whatever the timer does
\* afterwards; and the late answer of an abandoned call changes nothing of
\* the call.
C16_FirstCompletionWins ==
    [][ /\ (pc = "select" /\ pc' # "select" /\ raceFirst = "timer")
              => ( /\ pc' = "top"
                   /\ ~returned'
                   /\ allErrors' = Append(allErrors, TimeoutErr(attempt)) )
        /\ (pc = "select" /\ pc' # "select" /\ raceFirst = "done")
              => ( /\ pc' \in {"sleep", "done"}
                   /\ (pc' = "done" => retResponse' = response /\ retErr' = <<>>)
                   /\ (pc' = "sleep" => allErrors' = Append(allErrors,
                          Wrapf(shouldRetry(statusCodeOf(response), respErr).err,
                                attempt))) )
        /\ (abandoned' # abandoned /\ abandoned' \subseteq abandoned)
              => UNCHANGED <<pc, attempt, allErrors, response, respErr, done,
                             timer, returned, retResponse, retErr>>
      ]_vars

\* C17 (as claimed): an attempt starts only when the race of the one before
\* is resolved, and at no time are the underlying calls of two attempts of
\* the call in flight together.
C17_OneExecutionInFlight ==
    /\ (pc = "select" => calls = attempt)
    /\ (pc # "select" => timer \in {"none", "stopped"})
    /\ Cardinality(InFlight) <= 1

C19_OneTerminalReason ==
    /\ [] ( (maxRetries >= 0 /\ returned /\ retErr # <<>>) =>
              /\ {i \in 1..Len(retErr) : retErr[i].tag = 0} = {Len(retErr)}
              /\ Last(retErr) \in {CancelledErr, MaxRetriesErr} )
    /\ [][ ( /\ maxRetries >= 0
             /\ pc = "top"
             /\ ctxErr
             /\ attempt > maxRetries
             /\ pc' # "top" )
           => ( /\ returned'
                /\ Last(retErr') = CancelledErr
                /\ \A i \in 1..Len(retErr') : retErr'[i] # MaxRetriesErr ) ]_vars

\* C19 witness: the context was cancelled while the last attempt the budget
\* grants was running or backing off, and the call ended as cancelled.
C19_Witness ==
    /\ maxRetries >= 1
    /\ returned
    /\ attempt = maxRetries + 1
    /\ calls = maxRetries
    /\ cancelledAt \in {"select", "sleep"}
    /\ Last(retErr) = CancelledErr

\* C20: two calls that share one client are isolated, however they are
\* interleaved: no step changes the client's maxRetries or registry (its
\* timeout and backoff policy are fixed by construction); what a call owns
\* (attempt counter, accumulator, cancellation signal, result) changes only
\* in a step of that call; its counter then advances by one, its
\* accumulator grows by one reason, tagged with its own current attempt or
\* terminal, and its result is its own accumulator or response; and the
\* error a call returns holds one reason for each attempt the call itself
\* made, numbered 1, 2, ... in order, before a single terminal reason.
C20_CallsIsolated ==
    /\ [][ /\ config' = config
           /\ \A c \in 1..2 :
                LET before == FrameOf(c)
                    after  == FrameOf(c)'
                IN  after # before =>
                      /\ cur = c /\ cur' = c
                      /\ after.attempt \in {before.attempt, before.attempt + 1}
                      /\ (after.ctxErr # before.ctxErr => after.ctxErr)
                      /\ \/ after.allErrors = before.allErrors
                         \/ \E e \in {CancelledErr, MaxRetriesErr,
                                      TimeoutErr(before.attempt)}
                                 \cup {Wrapf(m, before.attempt) :
                                         m \in TransportErrors \cup StatusReasons} :
                                after.allErrors = Append(before.allErrors, e)
                      /\ (after.returned /\ ~before.returned =>
                            \/ after.retErr = after.allErrors
                                 /\ ~after.retResponse.present
                            \/ after.retErr = <<>>
                                 /\ after.retResponse = before.response)
         ]_vars
    /\ [] \A c \in 1..2 :
            LET f == FrameOf(c)
            IN  (f.returned /\ f.retErr # <<>> /\ maxRetries >= 0) =>
                  /\ Len(f.retErr) = f.calls + 1
                  /\ \A i \in 1..f.calls : f.retErr[i].tag = i
                  /\ Last(f.retErr).tag = 0

\* C20 witness: both calls have returned; one made its attempt, saw it time
\* out and was cancelled, the other was answered 503 and ran out of budget
\* while the first was in progress, and each error holds its own reasons
\* only.
C20_Witness ==
    /\ maxRetries = 1
    /\ FrameOf(1).returned /\ FrameOf(2).returned
    /\ FrameOf(1).retErr = <<TimeoutErr(1), CancelledErr>>
    /\ FrameOf(2).retErr =
           <<Wrapf(retryStatusCodes[503], 1), MaxRetriesErr>>
    /\ FrameOf(2).cancelledAt = "never"
    /\ cur = 1

\* C21 (as claimed): backoff stands between a failed attempt and the next
\* one.  When the loop comes back to its top from a backoff wait, it starts
\* a further attempt unless it observes the cancellation there; and a call
\* that reports exhaustion did not ask the backoff policy, nor wait, after
\* the failure of its last attempt.
C21_BackoffOnlyBetweenAttempts ==
    /\ ( /\ pc = "top"
         /\ backoffArgs # <<>>
         /\ Last(backoffArgs) = attempt - 1 )
       => IterationTop(attempt) \in {"attempt", "cancelled"}
    /\ ( /\ returned
         /\ retErr # <<>>
         /\ Last(retErr) = MaxRetriesErr
         /\ calls >= 1 )
       => (backoffArgs = <<>> \/ Last(backoffArgs) # calls)

\* The transport-level settings a client is built with: what
\* newRetriableTransport writes into the transport for the given settings.
TransportSettingsOf(settings) ==
    [MaxIdleConns |-> settings.MaxIdleConns,
     IdleConnTimeout |-> settings.IdleConnTimeout,
     TLSHandshakeTimeout |-> settings.TLSHandshakeTimeout,
     ExpectContinueTimeout |-> settings.ExpectContinueTimeout,
     ResponseHeaderTimeout |-> settings.ResponseHeaderTimeout,
     MinVersion |-> "TLS12",
     InsecureSkipVerify |-> settings.Insecure]

\* The transport-level settings in effect for client i: those of the
\* transport its RoundTripper field points to.
TransportInEffect(i) ==
    IF clients[i].RoundTripper = "http.DefaultTransport"
    THEN DefaultTransport
    ELSE InitialDefaultTransport

\* C22 (as claimed): after any sequence of NewClient calls, the
\* transport-level settings in effect for every client built so far are
\* the ones it was built with, and the Settings value the caller passed is
\* as the caller made it.
C22_EarlierClientsUnchanged ==
    \A i \in 1..Len(clients) :
        /\ TransportInEffect(i) = TransportSettingsOf(clients[i].given.val)
        /\ (~clients[i].given.isNil => clients[i].left = clients[i].given)

====
